---- MODULE Spec2Model ----
(***************************************************************************)
(* Order placement, cancellation, status and payment handling of the meat  *)
(* shop backend, over the three document collections they touch            *)
(* (products, carts, orders) and the accounts' active flag.                *)
(*                                                                         *)
(* Money is kept in cents.  Dates are values of a logical clock that       *)
(* advances each time a handler stores `new Date()` in a document.         *)
(* An order's _id is its index in `orders`.                                *)
(* `ledger` is a history variable: for each product, its initial quantity  *)
(* plus every change a stock write meant to apply.                         *)
(***************************************************************************)
EXTENDS Integers, Sequences, FiniteSets, TLC

VARIABLES products, carts, orders, users, clock, ledger, last, req

vars == <<products, carts, orders, users, clock, ledger, last, req>>

---------------------------------------------------------------------------
(* Bounds of the model *)

MaxReq == 4

(* status updates with tracking data served in one run *)
MaxTracked == 3

(* Program constants *)

TaxPercent == 8
FreeShippingOver == 10000
ShippingFee == 1000

---------------------------------------------------------------------------
(* Domains *)

Products == {"p1", "p2"}
Users == {"u1", "u2"}
Admin == "admin"
Callers == Users \cup {Admin}
Slots == {1, 2}
OrderIds == {1, 2}
InitStock == [p \in Products |-> IF p = "p1" THEN 2 ELSE 1]

InitPrice == [p \in Products |-> IF p = "p1" THEN 1995 ELSE 6000]

Statuses == {"pending", "confirmed", "processing", "shipped",
             "delivered", "cancelled", "refunded"}

RoleOf(c) == IF c = Admin THEN "admin" ELSE "customer"

NoCart == [exists |-> FALSE, items |-> <<>>, totalItems |-> 0, totalAmount |-> 0]

---------------------------------------------------------------------------
(* Helpers *)

RECURSIVE SumQuantity(_)
SumQuantity(items) ==
    IF items = <<>> THEN 0
    ELSE Head(items).quantity + SumQuantity(Tail(items))

RECURSIVE SumTotalPrice(_)
SumTotalPrice(items) ==
    IF items = <<>> THEN 0
    ELSE Head(items).totalPrice + SumTotalPrice(Tail(items))

(* Math.round(x * 8 / 100) on a non-negative amount of cents *)
RoundDiv(n, d) == (2 * n + d) \div (2 * d)

Db == [products |-> products, carts |-> carts, orders |-> orders, users |-> users,
       clock |-> clock, ledger |-> ledger]

Commit(db) ==
    /\ products' = db.products
    /\ carts' = db.carts
    /\ orders' = db.orders
    /\ users' = db.users
    /\ clock' = db.clock
    /\ ledger' = db.ledger

---------------------------------------------------------------------------
(* Cart model hooks *)

CartItemPreSave(item) ==
    [item EXCEPT !.totalPrice = item.quantity * item.price]

(* a cart hook that counts lines instead of summing their quantities *)
CartPreSave_CountsLines(items) ==
    LET saved == [i \in 1..Len(items) |-> CartItemPreSave(items[i])]
    IN [exists |-> TRUE, items |-> saved,
        totalItems |-> Len(saved),
        totalAmount |-> SumTotalPrice(saved)]

CartPreSave(items) ==
    LET saved == [i \in 1..Len(items) |-> CartItemPreSave(items[i])]
    IN [exists |-> TRUE, items |-> saved,
        totalItems |-> SumQuantity(saved),
        totalAmount |-> SumTotalPrice(saved)]

(* cart.save(): the document is written when it still exists *)
CartSave(db, u, items) ==
    IF db.carts[u].exists
    THEN [db EXCEPT !.carts[u] = CartPreSave(items)]
    ELSE db

---------------------------------------------------------------------------
(* Product model: inventory.quantity has the validator min: 0, run by      *)
(* save() and by findByIdAndUpdate(..., runValidators: true)               *)

(* the schema without min: 0 on inventory.quantity *)
InventoryValid_NoMin(q) == TRUE

InventoryValid(q) == q >= 0

(* product.save() of a loaded document whose inventory.quantity was        *)
(* assigned: only the modified path is written, with the value computed    *)
(* from the copy the request loaded                                        *)
ProductSaveQuantity(db, p, q, change) ==
    IF db.products[p].exists
    THEN [db EXCEPT !.products[p].quantity = q, !.ledger[p] = @ + change]
    ELSE db

---------------------------------------------------------------------------
(* Request records *)

Idle == [op |-> "none", pc |-> "idle", result |-> "none", overlap |-> FALSE]

Done(L, res) == [L EXCEPT !.pc = "done", !.result = res]

---------------------------------------------------------------------------
(* createOrder *)

LineFailure(item, pdocs) ==
    LET product == pdocs[item.product]
    IN IF ~product.exists \/ ~product.isActive THEN "ProductUnavailable"
       ELSE IF product.track /\ product.quantity < item.quantity
            THEN "InsufficientStock"
            ELSE "ok"

(* a validation loop that looks at the first line only *)
FirstFailure_HeadOnly(items, pdocs) ==
    IF items = <<>> THEN "ok" ELSE LineFailure(Head(items), pdocs)

RECURSIVE FirstFailure(_, _)
FirstFailure(items, pdocs) ==
    IF items = <<>> THEN "ok"
    ELSE IF LineFailure(Head(items), pdocs) # "ok"
         THEN LineFailure(Head(items), pdocs)
         ELSE FirstFailure(Tail(items), pdocs)

OrderItem(item, pdocs) ==
    [product |-> item.product,
     name |-> pdocs[item.product].name,
     image |-> pdocs[item.product].image,
     price |-> pdocs[item.product].price,
     quantity |-> item.quantity,
     totalPrice |-> pdocs[item.product].price * item.quantity]

TaxPrice(itemsPrice) == RoundDiv(itemsPrice * TaxPercent, 100)

ShippingPrice(itemsPrice) == IF itemsPrice > FreeShippingOver THEN 0 ELSE ShippingFee

(* a total that leaves the shipping price out *)
TotalPrice_NoShipping(itemsPrice, taxPrice, shippingPrice) == itemsPrice + taxPrice

TotalPrice(itemsPrice, taxPrice, shippingPrice) == itemsPrice + taxPrice + shippingPrice

(* the document handed to Order.create, with the schema defaults *)
NewOrder(u, cartItems, pdocs) ==
    LET orderItems == [i \in 1..Len(cartItems) |-> OrderItem(cartItems[i], pdocs)]
        itemsPrice == SumTotalPrice(orderItems)
        taxPrice == TaxPrice(itemsPrice)
        shippingPrice == ShippingPrice(itemsPrice)
    IN [user |-> u,
        items |-> orderItems,
        itemsPrice |-> itemsPrice,
        taxPrice |-> taxPrice,
        shippingPrice |-> shippingPrice,
        totalPrice |-> TotalPrice(itemsPrice, taxPrice, shippingPrice),
        status |-> "pending",
        isPaid |-> FALSE,
        isDelivered |-> FALSE,
        deliveredAt |-> 0,
        transactionId |-> 0,
        paidAt |-> 0,
        trackingNumber |-> "",
        estimatedDelivery |-> 0,
        statusHistory |-> <<>>]

(* Cart.findOne(...).populate("items.product") and the validation loop.    *)
(* populate gives every line of one product the same loaded document.      *)
CO_Load(db, u) ==
    LET cart == db.carts[u]
        pdocs == db.products
        base == [op |-> "createOrder", pc |-> "create", result |-> "none",
                 caller |-> u, cartItems |-> cart.items, pdocs |-> pdocs,
                 i |-> 1, order |-> 0, writes |-> 0, read |-> pdocs,
                 overlap |-> FALSE]
    IN IF ~cart.exists \/ cart.items = <<>> THEN Done(base, "EmptyCart")
       ELSE IF FirstFailure(cart.items, pdocs) # "ok"
            THEN Done(base, FirstFailure(cart.items, pdocs))
            ELSE base

(* Order.create: orderNumber is required and is assigned only by a         *)
(* pre("save") hook; createOk says whether the document passes the         *)
(* validators and the unique index on orderNumber                          *)
CO_Create(db, L, createOk) ==
    IF ~createOk
    THEN [db |-> db, loc |-> Done(L, "ServerError")]
    ELSE [db |-> [db EXCEPT !.orders = Append(@, NewOrder(L.caller, L.cartItems, L.pdocs))],
          loc |-> [L EXCEPT !.pc = "stock", !.i = 1,
                            !.order = Len(db.orders) + 1, !.writes = @ + 1]]

CO_Advance(L) ==
    IF L.i + 1 > Len(L.cartItems)
    THEN [L EXCEPT !.pc = "clear", !.i = L.i + 1]
    ELSE [L EXCEPT !.i = L.i + 1]

(* an inventory loop that takes the order back when a stock write fails *)
CO_Stock_Compensating(db, L) ==
    LET item == L.cartItems[L.i]
        p == item.product
        q == L.pdocs[p].quantity - item.quantity
    IN IF ~L.pdocs[p].track
       THEN [db |-> db, loc |-> CO_Advance(L)]
       ELSE IF ~InventoryValid(q)
            THEN [db |-> [db EXCEPT !.orders[L.order].status = "cancelled"],
                  loc |-> Done([L EXCEPT !.pdocs[p].quantity = q], "ServerError")]
            ELSE [db |-> ProductSaveQuantity(db, p, q, 0 - item.quantity),
                  loc |-> CO_Advance([L EXCEPT !.pdocs[p].quantity = q,
                                               !.writes = @ + 1])]

(* one iteration of the inventory loop *)
CO_Stock(db, L) ==
    LET item == L.cartItems[L.i]
        p == item.product
        q == L.pdocs[p].quantity - item.quantity
    IN IF ~L.pdocs[p].track
       THEN [db |-> db, loc |-> CO_Advance(L)]
       ELSE IF ~InventoryValid(q)
            THEN [db |-> db, loc |-> Done([L EXCEPT !.pdocs[p].quantity = q], "ServerError")]
            ELSE [db |-> ProductSaveQuantity(db, p, q, 0 - item.quantity),
                  loc |-> CO_Advance([L EXCEPT !.pdocs[p].quantity = q,
                                               !.writes = @ + 1])]

CO_Clear(db, L) ==
    [db |-> CartSave(db, L.caller, <<>>),
     loc |-> Done([L EXCEPT !.writes = @ + 1], "Created")]

CO_Step(db, L, createOk) ==
    CASE L.pc = "create" -> CO_Create(db, L, createOk)
      [] L.pc = "stock" -> CO_Stock(db, L)
      [] L.pc = "clear" -> CO_Clear(db, L)

RECURSIVE CO_Run(_, _, _)
CO_Run(db, L, createOk) ==
    IF L.pc = "done" THEN [db |-> db, loc |-> L]
    ELSE LET s == CO_Step(db, L, createOk)
         IN CO_Run(s.db, s.loc, createOk)

---------------------------------------------------------------------------
(* syncCart *)

(* a per-line check without the inventory test *)
SyncLineOk_NoStock(db, line) ==
    LET product == db.products[line.product]
    IN product.exists /\ product.isActive

SyncLineOk(db, line) ==
    LET product == db.products[line.product]
    IN /\ product.exists
       /\ product.isActive
       /\ ~(product.track /\ product.quantity < line.quantity)

RECURSIVE SyncItems(_, _)
SyncItems(db, lines) ==
    IF lines = <<>> THEN <<>>
    ELSE LET line == Head(lines)
             rest == SyncItems(db, Tail(lines))
         IN IF SyncLineOk(db, line)
            THEN <<[product |-> line.product,
                    quantity |-> line.quantity,
                    price |-> db.products[line.product].price,
                    totalPrice |-> line.quantity * db.products[line.product].price]>> \o rest
            ELSE rest

(* syncErrors: one string pushed for each client line that is skipped *)
RECURSIVE SyncErrors(_, _)
SyncErrors(db, lines) ==
    IF lines = <<>> THEN <<>>
    ELSE LET line == Head(lines)
             product == db.products[line.product]
             rest == SyncErrors(db, Tail(lines))
         IN IF ~product.exists \/ ~product.isActive
            THEN <<"not found or inactive">> \o rest
            ELSE IF product.track /\ product.quantity < line.quantity
                 THEN <<"only some available">> \o rest
                 ELSE rest

CartGetOrCreate(db, u) ==
    IF db.carts[u].exists THEN db
    ELSE [db EXCEPT !.carts[u] = CartPreSave(<<>>)]

SyncCartRun(db, u, lines) ==
    LET db1 == CartGetOrCreate(db, u)
    IN CartSave(db1, u, SyncItems(db1, lines))

Line(p, q) == [product |-> p, quantity |-> q]

---------------------------------------------------------------------------
(* addToCart and updateCartItem *)

(* cart.items.findIndex(item => item.product === productId); 0 for -1 *)
FindIndex(items, p) ==
    IF \E i \in DOMAIN items : items[i].product = p
    THEN CHOOSE i \in DOMAIN items :
            /\ items[i].product = p
            /\ \A j \in DOMAIN items : items[j].product = p => i <= j
    ELSE 0

CartLine(p, q, price) ==
    [product |-> p, quantity |-> q, price |-> price, totalPrice |-> q * price]

AddToCartRun(db, u, p, q) ==
    LET product == db.products[p]
        db1 == CartGetOrCreate(db, u)
        items == db1.carts[u].items
        idx == FindIndex(items, p)
    IN IF ~product.exists \/ ~product.isActive
       THEN [db |-> db, result |-> "NotFound"]
       ELSE IF product.track /\ product.quantity < q
       THEN [db |-> db, result |-> "InsufficientStock"]
       ELSE IF idx > 0
       THEN IF product.track /\ product.quantity < items[idx].quantity + q
            THEN [db |-> db1, result |-> "InsufficientStock"]
            ELSE [db |-> CartSave(db1, u,
                            [items EXCEPT ![idx] =
                                CartLine(p, items[idx].quantity + q, product.price)]),
                  result |-> "ok"]
       ELSE [db |-> CartSave(db1, u, Append(items, CartLine(p, q, product.price))),
             result |-> "ok"]

(* an updateCartItem without the inventory check *)
UpdateCartItemRun_NoStockCheck(db, u, p, q) ==
    LET product == db.products[p]
        items == db.carts[u].items
        idx == FindIndex(items, p)
    IN IF ~db.carts[u].exists THEN [db |-> db, result |-> "NotFound"]
       ELSE IF idx = 0 THEN [db |-> db, result |-> "NotFound"]
       ELSE IF ~product.exists \/ ~product.isActive
       THEN [db |-> db, result |-> "NotFound"]
       ELSE [db |-> CartSave(db, u, [items EXCEPT ![idx] = CartLine(p, q, product.price)]),
             result |-> "ok"]

UpdateCartItemRun(db, u, p, q) ==
    LET product == db.products[p]
        items == db.carts[u].items
        idx == FindIndex(items, p)
    IN IF ~db.carts[u].exists THEN [db |-> db, result |-> "NotFound"]
       ELSE IF idx = 0 THEN [db |-> db, result |-> "NotFound"]
       ELSE IF ~product.exists \/ ~product.isActive
       THEN [db |-> db, result |-> "NotFound"]
       ELSE IF product.track /\ product.quantity < q
       THEN [db |-> db, result |-> "InsufficientStock"]
       ELSE [db |-> CartSave(db, u, [items EXCEPT ![idx] = CartLine(p, q, product.price)]),
             result |-> "ok"]

(* removeFromCart *)
RemoveFromCartRun(db, u, p) ==
    IF ~db.carts[u].exists THEN [db |-> db, result |-> "NotFound"]
    ELSE [db |-> CartSave(db, u, SelectSeq(db.carts[u].items,
                                           LAMBDA item : item.product # p)),
          result |-> "ok"]

(* clearCart *)
ClearCartRun(db, u) ==
    [db |-> CartSave(CartGetOrCreate(db, u), u, <<>>), result |-> "ok"]

(* a getCart that returns the cart as stored *)
GetCartRun_NoPrune(db, u) ==
    LET db1 == CartGetOrCreate(db, u)
    IN [db |-> db1, result |-> "ok", data |-> db1.carts[u].items]

(* getCart: lines whose populated product is null or inactive are dropped, *)
(* and the cart is saved when some line was dropped; `data` is the lines   *)
(* of the cart in the response                                             *)
GetCartRun(db, u) ==
    LET db1 == CartGetOrCreate(db, u)
        items == db1.carts[u].items
        activeItems == SelectSeq(items,
                          LAMBDA item : /\ db1.products[item.product].exists
                                        /\ db1.products[item.product].isActive)
    IN IF Len(activeItems) # Len(items)
       THEN [db |-> CartSave(db1, u, activeItems), result |-> "ok", data |-> activeItems]
       ELSE [db |-> db1, result |-> "ok", data |-> items]

AddQtys == {1}
UpdateQtys == {2}

(* the carts a client sends: one line, two lines of different products,    *)
(* and two lines of the same product                                       *)
ClientLines ==
    { <<Line("p1", 1)>>, <<Line("p2", 1)>>,
      <<Line("p1", 2), Line("p2", 1)>>,
      <<Line("p1", 2), Line("p1", 2)>>,
      <<Line("p1", 1), Line("p1", 1)>> }

---------------------------------------------------------------------------
(* Order model hooks and save *)

(* pre("save"): add status to history when status changes *)
StatusHistoryHook(loaded, doc) ==
    IF doc.status # loaded.status
    THEN [doc EXCEPT !.statusHistory = Append(@, [status |-> doc.status, note |-> FALSE])]
    ELSE doc

(* a delivered hook that stamps the date on every save of a delivered order *)
DeliveredHook_Restamp(doc, now) ==
    IF doc.status = "delivered"
    THEN [doc EXCEPT !.isDelivered = TRUE, !.deliveredAt = now]
    ELSE doc

(* pre("save"): update delivered status and date *)
DeliveredHook(doc, now) ==
    IF doc.status = "delivered" /\ ~doc.isDelivered
    THEN [doc EXCEPT !.isDelivered = TRUE, !.deliveredAt = now]
    ELSE doc

OrderPreSave(loaded, doc, now) == DeliveredHook(StatusHistoryHook(loaded, doc), now)

Pushed(loaded, doc) ==
    SubSeq(doc.statusHistory, Len(loaded.statusHistory) + 1, Len(doc.statusHistory))

(* order.save() of a loaded and then modified document: the hooks run,     *)
(* each modified path is $set and the pushed history entries are $push-ed  *)
(* onto the stored document                                                *)
OrderSave(db, o, loaded, doc) ==
    LET d == OrderPreSave(loaded, doc, db.clock)
        cur == db.orders[o]
        Put(f) == IF d[f] # loaded[f] THEN d[f] ELSE cur[f]
    IN [db EXCEPT
          !.orders[o] = [cur EXCEPT
              !.status = Put("status"),
              !.isPaid = Put("isPaid"),
              !.isDelivered = Put("isDelivered"),
              !.deliveredAt = Put("deliveredAt"),
              !.transactionId = Put("transactionId"),
              !.paidAt = Put("paidAt"),
              !.trackingNumber = Put("trackingNumber"),
              !.estimatedDelivery = Put("estimatedDelivery"),
              !.statusHistory = @ \o Pushed(loaded, d)],
          !.clock = db.clock + 1]

---------------------------------------------------------------------------
(* cancelOrder *)

CancelNote(caller) == TRUE

(* cancelOrder without the owner-or-admin check *)
CA_Load_NoOwnerCheck(db, caller, o) ==
    LET base == [op |-> "cancelOrder", pc |-> "read", result |-> "none",
                 caller |-> caller, order |-> o, i |-> 1,
                 loaded |-> IF o \in DOMAIN db.orders THEN db.orders[o] ELSE Idle,
                 populated |-> [p \in Products |-> db.products[p].exists],
                 pdoc |-> Idle, overlap |-> FALSE]
    IN IF o \notin DOMAIN db.orders THEN Done(base, "NotFound")
       ELSE IF db.orders[o].status \notin {"pending", "confirmed"}
            THEN Done(base, "InvalidTransition")
       ELSE IF db.orders[o].items = <<>> THEN [base EXCEPT !.pc = "save"]
       ELSE base

CA_Load(db, caller, o) ==
    LET base == [op |-> "cancelOrder", pc |-> "read", result |-> "none",
                 caller |-> caller, order |-> o, i |-> 1,
                 loaded |-> IF o \in DOMAIN db.orders THEN db.orders[o] ELSE Idle,
                 populated |-> [p \in Products |-> db.products[p].exists],
                 pdoc |-> Idle, overlap |-> FALSE]
    IN IF o \notin DOMAIN db.orders THEN Done(base, "NotFound")
       ELSE IF db.orders[o].user # caller /\ RoleOf(caller) # "admin"
            THEN Done(base, "Forbidden")
       ELSE IF db.orders[o].status \notin {"pending", "confirmed"}
            THEN Done(base, "InvalidTransition")
       ELSE IF db.orders[o].items = <<>> THEN [base EXCEPT !.pc = "save"]
       ELSE base

CA_Advance(L) ==
    IF L.i + 1 > Len(L.loaded.items)
    THEN [L EXCEPT !.pc = "save", !.i = L.i + 1]
    ELSE [L EXCEPT !.pc = "read", !.i = L.i + 1]

(* Product.findById(item.product) *)
CA_Read(db, L) ==
    LET p == L.loaded.items[L.i].product
        product == db.products[p]
    IN IF L.populated[p] /\ product.exists /\ product.track
       THEN [db |-> db, loc |-> [L EXCEPT !.pc = "write", !.pdoc = product]]
       ELSE [db |-> db, loc |-> CA_Advance(L)]

(* product.inventory.quantity += item.quantity; product.save() *)
CA_Write(db, L) ==
    LET item == L.loaded.items[L.i]
        q == L.pdoc.quantity + item.quantity
    IN IF ~InventoryValid(q)
       THEN [db |-> db, loc |-> Done(L, "ServerError")]
       ELSE [db |-> ProductSaveQuantity(db, item.product, q, item.quantity), loc |-> CA_Advance(L)]

(* order.status = "cancelled"; statusHistory.push(...); order.save() *)
CA_Save(db, L) ==
    LET doc == [L.loaded EXCEPT
                  !.status = "cancelled",
                  !.statusHistory = Append(@, [status |-> "cancelled",
                                               note |-> CancelNote(L.caller)])]
    IN [db |-> OrderSave(db, L.order, L.loaded, doc), loc |-> Done(L, "ok")]

CA_Step(db, L) ==
    CASE L.pc = "read" -> CA_Read(db, L)
      [] L.pc = "write" -> CA_Write(db, L)
      [] L.pc = "save" -> CA_Save(db, L)

RECURSIVE CA_Run(_, _)
CA_Run(db, L) ==
    IF L.pc = "done" THEN [db |-> db, loc |-> L]
    ELSE LET s == CA_Step(db, L)
         IN CA_Run(s.db, s.loc)

---------------------------------------------------------------------------
(* updateOrderStatus (orders route and admin route) *)

(* a request body: status, whether a note comes with it, and the optional *)
(* trackingNumber ("" when absent) and estimatedDelivery (0 when absent)   *)
StatusBody(status, note) ==
    [status |-> status, note |-> note, trackingNumber |-> "", estimatedDelivery |-> 0]

TrackingNumbers == {"", "1Z999"}
EstimatedDeliveries == {0, 9}

(* bodies without a note, with or without tracking data *)
StatusBodies ==
    [status : Statuses, note : {FALSE},
     trackingNumber : TrackingNumbers, estimatedDelivery : EstimatedDeliveries]

(* an updateOrderStatus that takes the tracking fields only with a         *)
(* transition to shipped                                                   *)
UpdateOrderStatusRun_TrackingOnShipped(db, o, body) ==
    IF o \notin DOMAIN db.orders THEN [db |-> db, result |-> "NotFound"]
    ELSE LET loaded == db.orders[o]
             shipped == body.status = "shipped"
             doc == [loaded EXCEPT
                       !.status = body.status,
                       !.statusHistory =
                           IF body.note
                           THEN Append(@, [status |-> body.status, note |-> TRUE])
                           ELSE @,
                       !.trackingNumber =
                           IF shipped /\ body.trackingNumber # ""
                           THEN body.trackingNumber ELSE @,
                       !.estimatedDelivery =
                           IF shipped /\ body.estimatedDelivery # 0
                           THEN body.estimatedDelivery ELSE @]
         IN [db |-> OrderSave(db, o, loaded, doc), result |-> "ok"]

UpdateOrderStatusRun(db, o, body) ==
    IF o \notin DOMAIN db.orders THEN [db |-> db, result |-> "NotFound"]
    ELSE LET loaded == db.orders[o]
             doc == [loaded EXCEPT
                       !.status = body.status,
                       !.statusHistory =
                           IF body.note
                           THEN Append(@, [status |-> body.status, note |-> TRUE])
                           ELSE @,
                       !.trackingNumber =
                           IF body.trackingNumber # "" THEN body.trackingNumber ELSE @,
                       !.estimatedDelivery =
                           IF body.estimatedDelivery # 0 THEN body.estimatedDelivery ELSE @]
         IN [db |-> OrderSave(db, o, loaded, doc), result |-> "ok"]

---------------------------------------------------------------------------
(* Payment: confirmPayment and the Stripe webhook *)

(* intent i is the payment intent createPaymentIntent made for order i *)
Intents == OrderIds
IntentOrder(intent) == intent

GatewayStatuses == {"succeeded", "requires_payment_method"}

MarkPaid(loaded, intent, now) ==
    [loaded EXCEPT !.isPaid = TRUE, !.transactionId = intent,
                   !.paidAt = now, !.status = "confirmed"]

(* a confirmPayment that does not look at the intent's status *)
ConfirmPaymentRun_AnyStatus(db, caller, o, intent, gatewayStatus) ==
    IF o \notin DOMAIN db.orders THEN [db |-> db, result |-> "NotFound"]
    ELSE IF db.orders[o].user # caller THEN [db |-> db, result |-> "Forbidden"]
    ELSE [db |-> OrderSave(db, o, db.orders[o], MarkPaid(db.orders[o], intent, db.clock)),
          result |-> "ok"]

ConfirmPaymentRun(db, caller, o, intent, gatewayStatus) ==
    IF o \notin DOMAIN db.orders THEN [db |-> db, result |-> "NotFound"]
    ELSE IF db.orders[o].user # caller THEN [db |-> db, result |-> "Forbidden"]
    ELSE IF gatewayStatus = "succeeded"
         THEN [db |-> OrderSave(db, o, db.orders[o], MarkPaid(db.orders[o], intent, db.clock)),
               result |-> "ok"]
         ELSE [db |-> db, result |-> "PaymentNotSuccessful"]

(* createPaymentIntent: the gateway creates an intent, no document is written *)
CreatePaymentIntentRun(db, caller, o) ==
    IF o \notin DOMAIN db.orders THEN [db |-> db, result |-> "NotFound"]
    ELSE IF db.orders[o].user # caller THEN [db |-> db, result |-> "Forbidden"]
    ELSE IF db.orders[o].isPaid THEN [db |-> db, result |-> "AlreadyPaid"]
    ELSE [db |-> db, result |-> "ok"]

(* a success handler that records the payment but leaves the status *)
HandlePaymentSuccess_PaidOnly(db, intent) ==
    LET o == IntentOrder(intent)
    IN IF o \in DOMAIN db.orders
       THEN OrderSave(db, o, db.orders[o],
                      [db.orders[o] EXCEPT !.isPaid = TRUE, !.transactionId = intent,
                                           !.paidAt = db.clock])
       ELSE db

HandlePaymentSuccess(db, intent) ==
    LET o == IntentOrder(intent)
    IN IF o \in DOMAIN db.orders
       THEN OrderSave(db, o, db.orders[o], MarkPaid(db.orders[o], intent, db.clock))
       ELSE db

EventTypes == {"payment_intent.succeeded", "payment_intent.payment_failed",
               "charge.dispute.created"}

(* a webhook that cancels the order on a failed payment or a dispute *)
StripeWebhookRun_FailureCancels(db, signatureOk, type, intent) ==
    IF ~signatureOk THEN [db |-> db, result |-> "BadSignature"]
    ELSE IF type = "payment_intent.succeeded"
         THEN [db |-> HandlePaymentSuccess(db, intent), result |-> "received"]
         ELSE IF IntentOrder(intent) \in DOMAIN db.orders
              THEN [db |-> OrderSave(db, IntentOrder(intent), db.orders[IntentOrder(intent)],
                                     [db.orders[IntentOrder(intent)] EXCEPT
                                         !.status = "cancelled"]),
                    result |-> "received"]
              ELSE [db |-> db, result |-> "received"]

(* a webhook route that does not verify the signature *)
StripeWebhookRun_Unsigned(db, signatureOk, type, intent) ==
    IF type = "payment_intent.succeeded"
    THEN [db |-> HandlePaymentSuccess(db, intent), result |-> "received"]
    ELSE [db |-> db, result |-> "received"]

StripeWebhookRun(db, signatureOk, type, intent) ==
    IF ~signatureOk THEN [db |-> db, result |-> "BadSignature"]
    ELSE IF type = "payment_intent.succeeded"
         THEN [db |-> HandlePaymentSuccess(db, intent), result |-> "received"]
         ELSE [db |-> db, result |-> "received"]

---------------------------------------------------------------------------
(* Admin product operations *)

NewPrices == {2500}

(* a request body without an inventory object *)
NoInventory == [present |-> FALSE, quantity |-> 0]

(* inventory.quantity values an updateProduct body may carry *)
NewQuantities == {-1, 1}

(* the request bodies of updateProduct: new display attributes and price,  *)
(* and possibly an inventory object (the route's validators name no        *)
(* inventory field and the handler passes req.body on unfiltered); such a  *)
(* body repeats the stored trackQuantity                                   *)
ProductUpdates ==
    { [name |-> "renamed", image |-> "new.jpg", price |-> price, inventory |-> q] :
        price \in NewPrices,
        q \in {NoInventory} \cup { [present |-> TRUE, quantity |-> n] : n \in NewQuantities } }

(* an updateProduct that also rewrites the lines of the orders that        *)
(* reference the product                                                   *)
UpdateProductRun_Cascading(db, p, body) ==
    IF ~db.products[p].exists THEN [db |-> db, result |-> "NotFound"]
    ELSE IF body.inventory.present /\ ~InventoryValid(body.inventory.quantity)
    THEN [db |-> db, result |-> "ServerError"]
    ELSE [db |-> [db EXCEPT
                    !.products[p].quantity =
                        IF body.inventory.present THEN body.inventory.quantity ELSE @,
                    !.ledger[p] =
                        IF body.inventory.present THEN body.inventory.quantity ELSE @,
                    !.products[p].name = body.name,
                    !.products[p].image = body.image,
                    !.products[p].price = body.price,
                    !.orders = [o \in DOMAIN db.orders |->
                        [db.orders[o] EXCEPT !.items =
                            [i \in DOMAIN db.orders[o].items |->
                                IF db.orders[o].items[i].product = p
                                THEN [db.orders[o].items[i] EXCEPT
                                        !.name = body.name, !.price = body.price]
                                ELSE db.orders[o].items[i]]]]],
          result |-> "ok"]

(* Product.findByIdAndUpdate(id, req.body, {runValidators: true}): every  *)
(* field of the body is written, inventory.quantity included; a value the  *)
(* min: 0 validator rejects throws and the catch answers 500. The stock    *)
(* ledger restarts from a quantity set this way                            *)
UpdateProductRun(db, p, body) ==
    IF ~db.products[p].exists THEN [db |-> db, result |-> "NotFound"]
    ELSE IF body.inventory.present /\ ~InventoryValid(body.inventory.quantity)
    THEN [db |-> db, result |-> "ServerError"]
    ELSE [db |-> [db EXCEPT !.products[p].name = body.name,
                            !.products[p].image = body.image,
                            !.products[p].price = body.price,
                            !.products[p].quantity =
                                IF body.inventory.present THEN body.inventory.quantity ELSE @,
                            !.ledger[p] =
                                IF body.inventory.present THEN body.inventory.quantity ELSE @],
          result |-> "ok"]

ToggleProductStatusRun(db, p) ==
    IF ~db.products[p].exists THEN [db |-> db, result |-> "NotFound"]
    ELSE [db |-> [db EXCEPT !.products[p].isActive = ~@], result |-> "ok"]

PendingOrdersOf(db, p) ==
    { o \in DOMAIN db.orders :
        /\ \E i \in DOMAIN db.orders[o].items : db.orders[o].items[i].product = p
        /\ db.orders[o].status \in {"pending", "confirmed", "processing"} }

DeleteProductRun(db, p) ==
    IF ~db.products[p].exists THEN [db |-> db, result |-> "NotFound"]
    ELSE IF PendingOrdersOf(db, p) # {} THEN [db |-> db, result |-> "HasPendingOrders"]
    ELSE [db |-> [db EXCEPT !.products[p].exists = FALSE], result |-> "ok"]

---------------------------------------------------------------------------
(* The API, one handler per action *)

Record(op, caller, order, result) ==
    last' = [n |-> last.n + 1, op |-> op, result |-> result]

Budget == last.n < MaxReq

SyncCart(u, lines) ==
    /\ Budget
    /\ Commit(SyncCartRun(Db, u, lines))
    /\ Record("syncCart", u, 0, "ok")
    /\ UNCHANGED req

AddToCart(u, p, q) ==
    /\ Budget
    /\ LET r == AddToCartRun(Db, u, p, q)
       IN /\ Commit(r.db)
          /\ Record("addToCart", u, 0, r.result)
    /\ UNCHANGED req

UpdateCartItem(u, p, q) ==
    /\ Budget
    /\ LET r == UpdateCartItemRun(Db, u, p, q)
       IN /\ Commit(r.db)
          /\ Record("updateCartItem", u, 0, r.result)
    /\ UNCHANGED req

RemoveFromCart(u, p) ==
    /\ Budget
    /\ LET r == RemoveFromCartRun(Db, u, p)
       IN /\ Commit(r.db)
          /\ Record("removeFromCart", u, 0, r.result)
    /\ UNCHANGED req

ClearCart(u) ==
    /\ Budget
    /\ LET r == ClearCartRun(Db, u)
       IN /\ Commit(r.db)
          /\ Record("clearCart", u, 0, r.result)
    /\ UNCHANGED req

GetCart(u) ==
    /\ Budget
    /\ LET r == GetCartRun(Db, u)
       IN /\ Commit(r.db)
          /\ Record("getCart", u, 0, r.result)
    /\ UNCHANGED req

CreatePaymentIntent(caller, o) ==
    /\ Budget
    /\ LET r == CreatePaymentIntentRun(Db, caller, o)
       IN /\ Commit(r.db)
          /\ Record("createPaymentIntent", caller, o, r.result)
    /\ UNCHANGED req

CreateOrder(u, createOk) ==
    /\ Budget
    /\ Len(orders) + 1 \in OrderIds
    /\ LET r == CO_Run(Db, CO_Load(Db, u), createOk)
       IN /\ Commit(r.db)
          /\ Record("createOrder", u, r.loc.order, r.loc.result)
    /\ UNCHANGED req

CancelOrder(caller, o) ==
    /\ Budget
    /\ LET r == CA_Run(Db, CA_Load(Db, caller, o))
       IN /\ Commit(r.db)
          /\ Record("cancelOrder", caller, o, r.loc.result)
    /\ UNCHANGED req

UpdateOrderStatus(o, status, note) ==
    /\ Budget
    /\ LET r == UpdateOrderStatusRun(Db, o, StatusBody(status, note))
       IN /\ Commit(r.db)
          /\ Record("updateOrderStatus", Admin, o, r.result)
    /\ UNCHANGED req

(* updateOrderStatus with a body that may carry the tracking fields *)
UpdateOrderStatusTracked(o, body) ==
    /\ Budget
    /\ last.n < MaxTracked
    /\ LET r == UpdateOrderStatusRun(Db, o, body)
       IN /\ Commit(r.db)
          /\ Record("updateOrderStatus", Admin, o, r.result)
    /\ UNCHANGED req

ConfirmPayment(caller, o, intent, gatewayStatus) ==
    /\ Budget
    /\ LET r == ConfirmPaymentRun(Db, caller, o, intent, gatewayStatus)
       IN /\ Commit(r.db)
          /\ Record("confirmPayment", caller, o, r.result)
    /\ UNCHANGED req

StripeWebhook(signatureOk, type, intent) ==
    /\ Budget
    /\ LET r == StripeWebhookRun(Db, signatureOk, type, intent)
       IN /\ Commit(r.db)
          /\ Record(IF signatureOk THEN type ELSE "stripeWebhook", "stripe",
                    IntentOrder(intent), r.result)
    /\ UNCHANGED req

UpdateProduct(p, body) ==
    /\ Budget
    /\ LET r == UpdateProductRun(Db, p, body)
       IN /\ Commit(r.db)
          /\ Record("updateProduct", Admin, 0, r.result)
    /\ UNCHANGED req

ToggleProductStatus(p) ==
    /\ Budget
    /\ LET r == ToggleProductStatusRun(Db, p)
       IN /\ Commit(r.db)
          /\ Record("toggleProductStatus", Admin, 0, r.result)
    /\ UNCHANGED req

DeleteProduct(p) ==
    /\ Budget
    /\ LET r == DeleteProductRun(Db, p)
       IN /\ Commit(r.db)
          /\ Record("deleteProduct", Admin, 0, r.result)
    /\ UNCHANGED req

(* orders of an account that block its deactivation *)
OpenOrdersOf(db, u) ==
    { o \in DOMAIN db.orders :
        /\ db.orders[o].user = u
        /\ db.orders[o].status \in {"pending", "confirmed", "processing", "shipped"} }

(* deleteUserAccount: the account's cart is deleted and the account is     *)
(* deactivated                                                             *)
DeleteUserAccountRun(db, u) ==
    IF OpenOrdersOf(db, u) # {} THEN [db |-> db, result |-> "HasPendingOrders"]
    ELSE [db |-> [db EXCEPT !.carts[u] = NoCart, !.users[u].isActive = FALSE],
          result |-> "ok"]

(* admin deactivateUser: toggles isActive; the cart is not touched *)
DeactivateUserRun(db, u) ==
    IF OpenOrdersOf(db, u) # {} THEN [db |-> db, result |-> "HasPendingOrders"]
    ELSE [db |-> [db EXCEPT !.users[u].isActive = ~@], result |-> "ok"]

DeleteUserAccount(u) ==
    /\ Budget
    /\ LET r == DeleteUserAccountRun(Db, u)
       IN /\ Commit(r.db)
          /\ Record("deleteUserAccount", u, 0, r.result)
    /\ UNCHANGED req

DeactivateUser(u) ==
    /\ Budget
    /\ LET r == DeactivateUserRun(Db, u)
       IN /\ Commit(r.db)
          /\ Record("deactivateUser", Admin, 0, r.result)
    /\ UNCHANGED req

---------------------------------------------------------------------------

(* accounts are created active (User schema: isActive default true) *)
InitUsers == [u \in Users |-> [isActive |-> TRUE]]

(* the seeded catalogue: p1 tracks quantity, p2 tracks it or not *)
InitProducts(track) ==
    [p \in Products |->
        [exists |-> TRUE, isActive |-> TRUE,
         track |-> IF p = "p1" THEN TRUE ELSE track,
         quantity |-> InitStock[p],
         name |-> p, image |-> "old.jpg",
         price |-> InitPrice[p]]]

Init ==
    /\ \E track \in BOOLEAN : products = InitProducts(track)
    /\ carts = [u \in Users |-> NoCart]
    /\ orders = <<>>
    /\ users = InitUsers
    /\ clock = 1
    /\ ledger = [p \in Products |-> products[p].quantity]
    /\ last = [n |-> 0, op |-> "none", result |-> "none"]
    /\ req = [r \in Slots |-> Idle]

Next ==
    \/ \E u \in Users, lines \in ClientLines : SyncCart(u, lines)
    \/ \E u \in Users, p \in Products, q \in AddQtys : AddToCart(u, p, q)
    \/ \E u \in Users, p \in Products, q \in UpdateQtys : UpdateCartItem(u, p, q)
    \/ \E u \in Users, p \in Products : RemoveFromCart(u, p)
    \/ \E u \in Users : ClearCart(u)
    \/ \E u \in Users : GetCart(u)
    \/ \E u \in Users, createOk \in BOOLEAN : CreateOrder(u, createOk)
    \/ \E c \in Callers, o \in OrderIds : CancelOrder(c, o)
    \/ \E c \in Users, o \in OrderIds : CreatePaymentIntent(c, o)
    \/ \E o \in OrderIds, s \in Statuses, note \in BOOLEAN : UpdateOrderStatus(o, s, note)
    \/ \E c \in Users, o \in OrderIds, i \in Intents, g \in GatewayStatuses :
          ConfirmPayment(c, o, i, g)
    \/ \E ok \in BOOLEAN, t \in EventTypes, i \in Intents : StripeWebhook(ok, t, i)
    \/ \E p \in Products, body \in ProductUpdates : UpdateProduct(p, body)
    \/ \E p \in Products : ToggleProductStatus(p)
    \/ \E p \in Products : DeleteProduct(p)

(* the seeded store with one product of each kind: p1 tracks quantity and  *)
(* p2 does not                                                             *)
InitMixed == Init /\ ~products["p2"].track

Spec == InitMixed /\ [][Next]_vars

---------------------------------------------------------------------------
(* The life of a placed order: the store after u1 has put one p1 in the    *)
(* cart and placed the order (syncCart, then createOrder, from the seeded  *)
(* store), and from there the status and payment operations; status        *)
(* updates come without a note here (Spec has them with and without)       *)

PlacedDb ==
    LET db0 == [products |-> InitProducts(TRUE),
                carts |-> [u \in Users |-> NoCart],
                orders |-> <<>>,
                users |-> InitUsers,
                clock |-> 1,
                ledger |-> [p \in Products |-> InitStock[p]]]
        db1 == SyncCartRun(db0, "u1", <<Line("p1", 1)>>)
    IN CO_Run(db1, CO_Load(db1, "u1"), TRUE).db

InitOrders ==
    /\ products = PlacedDb.products
    /\ carts = PlacedDb.carts
    /\ orders = PlacedDb.orders
    /\ users = PlacedDb.users
    /\ clock = PlacedDb.clock
    /\ ledger = PlacedDb.ledger
    /\ last = [n |-> 0, op |-> "none", result |-> "none"]
    /\ req = [r \in Slots |-> Idle]

NextOrders ==
    \/ \E c \in Callers, o \in OrderIds : CancelOrder(c, o)
    \/ \E c \in Users, o \in OrderIds : CreatePaymentIntent(c, o)
    \/ \E o \in OrderIds, s \in Statuses, note \in {FALSE} : UpdateOrderStatus(o, s, note)
    \/ \E c \in Users, o \in OrderIds, i \in Intents, g \in GatewayStatuses :
          ConfirmPayment(c, o, i, g)
    \/ \E ok \in BOOLEAN, t \in EventTypes, i \in Intents : StripeWebhook(ok, t, i)

SpecOrders == InitOrders /\ [][NextOrders]_vars

(* Status updates that carry tracking data, on the store with one placed   *)
(* order, next to the owner's cancellation                                 *)
NextTracking ==
    \/ \E o \in OrderIds, body \in StatusBodies : UpdateOrderStatusTracked(o, body)
    \/ \E o \in OrderIds : CancelOrder("u1", o)

SpecTracking == InitOrders /\ [][NextTracking]_vars

(* Account deactivation, next to the requests that give an account a cart  *)
(* and orders.  The protect middleware does not look at isActive, so a     *)
(* deactivated account that still holds a token keeps using the API.       *)
NextAccounts ==
    \/ \E u \in Users, lines \in ClientLines : SyncCart(u, lines)
    \/ \E u \in Users, createOk \in BOOLEAN : CreateOrder(u, createOk)
    \/ \E o \in OrderIds, s \in Statuses, note \in BOOLEAN : UpdateOrderStatus(o, s, note)
    \/ \E u \in Users : DeleteUserAccount(u)
    \/ \E u \in Users : DeactivateUser(u)

SpecAccounts == Init /\ [][NextAccounts]_vars

---------------------------------------------------------------------------
(* Concurrent requests: createOrder and cancelOrder take one step per      *)
(* store operation they await, and two of them may be in flight            *)

InFlight(r) == req[r].pc \notin {"idle", "done"}

Other(r) == CHOOSE r2 \in Slots : r2 # r

(* a request starts in slot r: it and the request in flight in the other   *)
(* slot overlap                                                            *)
Started(r, L) ==
    req' = [req EXCEPT ![r] = [L EXCEPT !.overlap = InFlight(Other(r))],
                       ![Other(r)] = [@ EXCEPT !.overlap = @ \/ InFlight(Other(r))]]

StartCreateOrder(r, u) ==
    /\ Budget
    /\ ~InFlight(r)
    /\ Len(orders) + Cardinality({r2 \in Slots : InFlight(r2)}) + 1 \in OrderIds
    /\ Started(r, CO_Load(Db, u))
    /\ last' = [last EXCEPT !.n = @ + 1]
    /\ UNCHANGED <<products, carts, orders, users, clock, ledger>>

StepCreateOrder(r, createOk) ==
    /\ InFlight(r)
    /\ req[r].op = "createOrder"
    /\ LET s == CO_Step(Db, req[r], createOk)
       IN /\ Commit(s.db)
          /\ req' = [req EXCEPT ![r] = s.loc]
    /\ UNCHANGED last

StartCancelOrder(r, caller, o) ==
    /\ Budget
    /\ ~InFlight(r)
    /\ Started(r, CA_Load(Db, caller, o))
    /\ last' = [last EXCEPT !.n = @ + 1]
    /\ UNCHANGED <<products, carts, orders, users, clock, ledger>>

StepCancelOrder(r) ==
    /\ InFlight(r)
    /\ req[r].op = "cancelOrder"
    /\ LET s == CA_Step(Db, req[r])
       IN /\ Commit(s.db)
          /\ req' = [req EXCEPT ![r] = s.loc]
    /\ UNCHANGED last

NextConc ==
    \/ \E u \in Users, lines \in ClientLines : SyncCart(u, lines)
    \/ \E r \in Slots, u \in Users : StartCreateOrder(r, u)
    \/ \E r \in Slots, createOk \in BOOLEAN : StepCreateOrder(r, createOk)
    \/ \E r \in Slots, c \in Callers, o \in OrderIds : StartCancelOrder(r, c, o)
    \/ \E r \in Slots : StepCancelOrder(r)

SpecConc == Init /\ [][NextConc]_vars

---------------------------------------------------------------------------
(* Properties *)

(* quantity of product p over the lines of `items` *)
RECURSIVE QuantityOf(_, _)
QuantityOf(items, p) ==
    IF items = <<>> THEN 0
    ELSE (IF Head(items).product = p THEN Head(items).quantity ELSE 0)
         + QuantityOf(Tail(items), p)

LineValid(item) ==
    /\ products[item.product].exists
    /\ products[item.product].isActive
    /\ products[item.product].track => products[item.product].quantity >= item.quantity

ValidationFailures == {"EmptyCart", "ProductUnavailable", "InsufficientStock"}

(* C1: two overlapping createOrder requests of different accounts, each    *)
(* with one cart line of quantity 1 for the same tracked product whose     *)
(* stock was 1, and neither refused by Order.create: exactly one is        *)
(* Created, the other fails with InsufficientStock, and the stock ends 0   *)
C1_Case(p) ==
    /\ \A r \in Slots :
          /\ req[r].op = "createOrder"
          /\ req[r].pc = "done"
          /\ req[r].overlap
          /\ Len(req[r].cartItems) = 1
          /\ req[r].cartItems[1].product = p
          /\ req[r].cartItems[1].quantity = 1
          /\ req[r].read[p].exists
          /\ req[r].read[p].isActive
          /\ req[r].read[p].track
          /\ req[r].read[p].quantity <= 1
          /\ req[r].result = "ServerError" => req[r].order # 0
    /\ req[1].caller # req[2].caller
    /\ \E r \in Slots : req[r].read[p].quantity = 1

C1_OneSuccessOneFailure ==
    \A p \in Products :
        C1_Case(p) =>
            /\ \E r \in Slots : /\ req[r].result = "Created"
                                /\ req[Other(r)].result = "InsufficientStock"
            /\ products[p].quantity = 0

(* C2: the stored quantity of a product that tracks quantity is never      *)
(* negative                                                                *)
C2_StockNeverNegative ==
    \A p \in Products : products[p].track => products[p].quantity >= 0

(* C2 witness: an order from a cart with two lines of one product whose    *)
(* second decrement was refused, the stock standing at 0                   *)
C2_Witness ==
    /\ last.op = "createOrder"
    /\ last.result = "ServerError"
    /\ \E o \in DOMAIN orders, p \in Products :
          /\ Len(orders[o].items) = 2
          /\ orders[o].items[1].product = p
          /\ orders[o].items[2].product = p
          /\ products[p].track
          /\ products[p].quantity = 0

(* C3: a createOrder whose cart is missing or empty, or has a line whose   *)
(* product is missing, inactive or short of stock, ends with a validation  *)
(* failure and writes nothing: orders, products and carts are unchanged    *)
C3_Invalid(u) ==
    \/ ~carts[u].exists
    \/ carts[u].items = <<>>
    \/ \E i \in DOMAIN carts[u].items : ~LineValid(carts[u].items[i])

C3_ValidationFailureWritesNothing ==
    [][\A u \in Users, createOk \in BOOLEAN :
         (last'.op = "createOrder" /\ C3_Invalid(u) /\ CreateOrder(u, createOk)) =>
            /\ last'.result \in ValidationFailures
            /\ orders' = orders
            /\ products' = products
            /\ carts' = carts]_vars

(* C3 witness: createOrder failed in validation on a cart whose first line *)
(* was valid and whose second line was not                                 *)
C3_Witness ==
    /\ last.op = "createOrder"
    /\ last.result \in {"ProductUnavailable", "InsufficientStock"}
    /\ \E u \in Users :
          /\ Len(carts[u].items) = 2
          /\ LineValid(carts[u].items[1])
          /\ ~LineValid(carts[u].items[2])
    /\ orders = <<>>

(* C4: a createOrder (accepted by Order.create) on a non-empty cart whose  *)
(* lines all reference active products with sufficient stock succeeds:     *)
(* one new pending unpaid order, itemsPrice the sum of price x quantity,   *)
(* every tracked product down by its ordered quantity, the cart empty      *)
C4_Pre(u) ==
    /\ carts[u].exists
    /\ carts[u].items # <<>>
    /\ \A i \in DOMAIN carts[u].items : LineValid(carts[u].items[i])

RECURSIVE C4_SumPriceTimesQuantity(_)
C4_SumPriceTimesQuantity(items) ==
    IF items = <<>> THEN 0
    ELSE Head(items).price * Head(items).quantity + C4_SumPriceTimesQuantity(Tail(items))

C4_Post(u) ==
    /\ last'.result = "Created"
    /\ Len(orders') = Len(orders) + 1
    /\ SubSeq(orders', 1, Len(orders)) = orders
    /\ orders'[Len(orders')].status = "pending"
    /\ orders'[Len(orders')].isPaid = FALSE
    /\ orders'[Len(orders')].itemsPrice =
          C4_SumPriceTimesQuantity(orders'[Len(orders')].items)
    /\ \A p \in Products :
          products[p].track =>
             products'[p].quantity = products[p].quantity - QuantityOf(carts[u].items, p)
    /\ carts'[u].items = <<>>

C4_ValidCartOrderSucceeds ==
    [][\A u \in Users :
         (last'.op = "createOrder" /\ C4_Pre(u) /\ CreateOrder(u, TRUE)) => C4_Post(u)]_vars

(* C5: cancelling a pending order (by its owner or an admin) restores the  *)
(* stock of every line's product, sets the status to cancelled and appends *)
(* exactly one statusHistory entry, with status cancelled                  *)
C5_CancelPendingRestoresAndLogsOnce ==
    [][\A c \in Callers, o \in OrderIds :
         (/\ last'.op = "cancelOrder"
          /\ o \in DOMAIN orders
          /\ orders[o].status = "pending"
          /\ (orders[o].user = c \/ c = Admin)
          /\ CancelOrder(c, o)) =>
            /\ \A p \in Products :
                  (products[p].exists /\ products[p].track) =>
                     products'[p].quantity =
                        products[p].quantity + QuantityOf(orders[o].items, p)
            /\ orders'[o].status = "cancelled"
            /\ Len(orders'[o].statusHistory) = Len(orders[o].statusHistory) + 1
            /\ orders'[o].statusHistory[Len(orders'[o].statusHistory)].status = "cancelled"]_vars

(* C6: statusHistory is append-only, a new order has an empty history, and *)
(* every step that changes an order's status appends exactly one entry     *)
C6_OneEntryPerTransition ==
    [][/\ \A o \in DOMAIN orders :
            /\ o \in DOMAIN orders'
            /\ Len(orders'[o].statusHistory) >= Len(orders[o].statusHistory)
            /\ SubSeq(orders'[o].statusHistory, 1, Len(orders[o].statusHistory))
                  = orders[o].statusHistory
            /\ orders'[o].status # orders[o].status =>
                  Len(orders'[o].statusHistory) = Len(orders[o].statusHistory) + 1
       /\ \A o \in DOMAIN orders' \ DOMAIN orders :
            orders'[o].statusHistory = <<>>]_vars

(* C7: cancelOrder succeeds only on an order in pending or confirmed, for  *)
(* its owner or an admin; every other cancelOrder fails and leaves the     *)
(* orders (status, statusHistory) and every product's stock unchanged      *)
C7_Allowed(c, o) ==
    /\ o \in DOMAIN orders
    /\ orders[o].status \in {"pending", "confirmed"}
    /\ (orders[o].user = c \/ c = Admin)

C7_CancelOnlyWhenAllowed ==
    [][\A c \in Callers, o \in OrderIds :
         (last'.op = "cancelOrder" /\ CancelOrder(c, o)) =>
            /\ last'.result = "ok" => C7_Allowed(c, o)
            /\ ~C7_Allowed(c, o) =>
                  /\ last'.result # "ok"
                  /\ orders' = orders
                  /\ products' = products]_vars

(* C7 witness: a cancelOrder was refused for its caller while an order of  *)
(* another account was pending                                             *)
C7_Witness ==
    /\ last.op = "cancelOrder"
    /\ last.result = "Forbidden"
    /\ \E o \in DOMAIN orders : orders[o].status = "pending"

(* C8: the payment-succeeded webhook for an order that is already          *)
(* confirmed and paid with the same intent changes nothing of the order    *)
C8_SecondWebhookChangesNothing ==
    [][\A i \in Intents :
         (/\ StripeWebhook(TRUE, "payment_intent.succeeded", i)
          /\ IntentOrder(i) \in DOMAIN orders
          /\ orders[IntentOrder(i)].status = "confirmed"
          /\ orders[IntentOrder(i)].isPaid
          /\ orders[IntentOrder(i)].transactionId = i) =>
            /\ orders'[IntentOrder(i)].isPaid
            /\ orders'[IntentOrder(i)].transactionId = orders[IntentOrder(i)].transactionId
            /\ orders'[IntentOrder(i)].paidAt = orders[IntentOrder(i)].paidAt
            /\ orders'[IntentOrder(i)].status = orders[IntentOrder(i)].status
            /\ orders'[IntentOrder(i)].statusHistory = orders[IntentOrder(i)].statusHistory]_vars

(* C9: when two overlapping requests that write stock have both succeeded, *)
(* every product's quantity is its initial quantity with every written     *)
(* change applied                                                          *)
C9_NoLostUpdate ==
    (\A r \in Slots : /\ req[r].pc = "done"
                      /\ req[r].overlap
                      /\ req[r].result \in {"Created", "ok"}) =>
        \A p \in Products : products[p].quantity = ledger[p]

(* C10: an order is created with totalPrice = itemsPrice + taxPrice +      *)
(* shippingPrice, and no step changes any of the four price fields of an   *)
(* existing order                                                          *)
C10_PricesFixedAtCreation ==
    [][/\ \A o \in DOMAIN orders' \ DOMAIN orders :
            orders'[o].totalPrice =
               orders'[o].itemsPrice + orders'[o].taxPrice + orders'[o].shippingPrice
       /\ \A o \in DOMAIN orders :
            /\ o \in DOMAIN orders'
            /\ orders'[o].itemsPrice = orders[o].itemsPrice
            /\ orders'[o].taxPrice = orders[o].taxPrice
            /\ orders'[o].shippingPrice = orders[o].shippingPrice
            /\ orders'[o].totalPrice = orders[o].totalPrice]_vars

(* C10 witness: a paid, confirmed order one of whose products has since    *)
(* changed its price                                                       *)
C10_Witness ==
    \E o \in DOMAIN orders :
        /\ orders[o].status # "pending"
        /\ orders[o].shippingPrice = ShippingFee
        /\ \E i \in DOMAIN orders[o].items :
              products[orders[o].items[i].product].price # orders[o].items[i].price

(* C11: no step changes the line items of an existing order (product       *)
(* reference, name, image, price, quantity, line total), whatever happens  *)
(* to the referenced products, to carts, or to the order's status and      *)
(* payment                                                                 *)
C11_OrderItemsImmutable ==
    [][\A o \in DOMAIN orders :
          /\ o \in DOMAIN orders'
          /\ orders'[o].items = orders[o].items]_vars

(* C11 witness: an updateProduct has renamed and repriced a product that   *)
(* an order's line references, and the line still holds the old values     *)
C11_Witness ==
    /\ last.op = "updateProduct"
    /\ last.result = "ok"
    /\ \E o \in DOMAIN orders : \E i \in DOMAIN orders[o].items :
          /\ products[orders[o].items[i].product].name # orders[o].items[i].name
          /\ products[orders[o].items[i].product].price # orders[o].items[i].price

(* C12: an order stored with status delivered has isDelivered = TRUE and   *)
(* a deliveredAt date, and once isDelivered is set no step changes         *)
(* deliveredAt, whether the order is set to delivered again at once or     *)
(* after other statuses                                                    *)
C12_DeliveredOnce ==
    [][\A o \in DOMAIN orders :
          /\ orders'[o].status = "delivered" =>
                /\ orders'[o].isDelivered
                /\ orders'[o].deliveredAt # 0
          /\ orders[o].isDelivered =>
                /\ orders'[o].isDelivered
                /\ orders'[o].deliveredAt = orders[o].deliveredAt]_vars

(* C12 witness: an order was delivered, moved to another status and        *)
(* delivered again, and still carries the date of the first delivery       *)
C12_Witness ==
    \E o \in DOMAIN orders :
        /\ orders[o].status = "delivered"
        /\ last.op = "updateOrderStatus"
        /\ Len(orders[o].statusHistory) >= 3
        /\ orders[o].statusHistory[1].status = "delivered"
        /\ orders[o].statusHistory[2].status # "delivered"
        /\ orders[o].statusHistory[Len(orders[o].statusHistory)].status = "delivered"
        /\ orders[o].deliveredAt = 1
        /\ clock >= 4

(* C13: confirmPayment by the order's owner with an intent the gateway     *)
(* reports as succeeded sets isPaid, transactionId (the intent), paidAt    *)
(* (now) and status confirmed; with any other gateway status the request   *)
(* fails and every order is left unchanged                                 *)
C13_PaidOnlyOnSucceeded ==
    [][\A c \in Users, o \in OrderIds, i \in Intents, g \in GatewayStatuses :
         (last'.op = "confirmPayment" /\ ConfirmPayment(c, o, i, g)) =>
            /\ (g = "succeeded" /\ o \in DOMAIN orders /\ orders[o].user = c) =>
                  /\ last'.result = "ok"
                  /\ orders'[o].isPaid
                  /\ orders'[o].transactionId = i
                  /\ orders'[o].paidAt = clock
                  /\ orders'[o].status = "confirmed"
            /\ g # "succeeded" =>
                  /\ last'.result # "ok"
                  /\ orders' = orders]_vars

(* C13 witness: a confirmPayment by the owner of an unpaid order was       *)
(* refused because the gateway did not report the intent as succeeded      *)
C13_Witness ==
    /\ last.op = "confirmPayment"
    /\ last.result = "PaymentNotSuccessful"
    /\ \E o \in DOMAIN orders : ~orders[o].isPaid /\ orders[o].status = "pending"

(* C14: for an order and the intent created for it, confirmPayment by the  *)
(* owner (gateway status succeeded) and the payment_intent.succeeded       *)
(* webhook give the same isPaid, transactionId, status and number of       *)
(* statusHistory entries: either path alone, and both paths in either      *)
(* order                                                                   *)
C14_SameOutcome(a, b) ==
    /\ a.isPaid = b.isPaid
    /\ a.transactionId = b.transactionId
    /\ a.status = b.status
    /\ Len(a.statusHistory) = Len(b.statusHistory)

C14_ViaConfirm(db, o, i) == ConfirmPaymentRun(db, db.orders[o].user, o, i, "succeeded").db

C14_ViaWebhook(db, i) == StripeWebhookRun(db, TRUE, "payment_intent.succeeded", i).db

C14_PathsConverge ==
    [][\A i \in Intents :
         LET o == IntentOrder(i)
         IN /\ (/\ last'.op = "confirmPayment"
                /\ last'.result = "ok"
                /\ o \in DOMAIN orders
                /\ ConfirmPayment(orders[o].user, o, i, "succeeded")) =>
                  /\ C14_SameOutcome(orders'[o], C14_ViaWebhook(Db, i).orders[o])
                  /\ C14_SameOutcome(C14_ViaWebhook(Db', i).orders[o],
                                     C14_ViaConfirm(C14_ViaWebhook(Db, i), o, i).orders[o])
                  /\ C14_SameOutcome(C14_ViaWebhook(Db', i).orders[o], orders'[o])
            /\ (/\ last'.op = "payment_intent.succeeded"
                /\ o \in DOMAIN orders
                /\ StripeWebhook(TRUE, "payment_intent.succeeded", i)) =>
                  /\ C14_SameOutcome(orders'[o], C14_ViaConfirm(Db, o, i).orders[o])
                  /\ C14_SameOutcome(C14_ViaConfirm(Db', o, i).orders[o],
                                     C14_ViaWebhook(C14_ViaConfirm(Db, o, i), i).orders[o])
                  /\ C14_SameOutcome(C14_ViaConfirm(Db', o, i).orders[o], orders'[o])]_vars

(* C14 witness: the webhook has just been applied to an order that         *)
(* confirmPayment had already marked paid with the same intent; the order  *)
(* has the one history entry of the first payment                          *)
C14_Witness ==
    /\ last.op = "payment_intent.succeeded"
    /\ \E o \in DOMAIN orders :
          /\ orders[o].isPaid
          /\ orders[o].status = "confirmed"
          /\ IntentOrder(orders[o].transactionId) = o
          /\ orders[o].statusHistory = <<[status |-> "confirmed", note |-> FALSE]>>
          /\ orders[o].paidAt = 2
          /\ clock = 3

(* C15: a payment_intent.payment_failed event and a charge.dispute.created *)
(* event, with a valid signature, are received and leave every order       *)
(* unchanged                                                               *)
C15_FailureAndDisputeChangeNothing ==
    [][\A t \in {"payment_intent.payment_failed", "charge.dispute.created"},
          i \in Intents :
         (last'.op = t /\ StripeWebhook(TRUE, t, i)) =>
            /\ last'.result = "received"
            /\ orders' = orders]_vars

(* C15 witness: a payment-failed or dispute event was received for an      *)
(* existing order that is still pending and unpaid                         *)
C15_Witness ==
    /\ last.op \in {"payment_intent.payment_failed", "charge.dispute.created"}
    /\ last.result = "received"
    /\ \E o \in DOMAIN orders :
          /\ orders[o].status = "pending"
          /\ ~orders[o].isPaid
          /\ orders[o].statusHistory = <<>>

(* C16: confirmPayment and createPaymentIntent by an account that does not *)
(* own the order fail and leave every order unchanged, and a webhook whose *)
(* signature does not verify is rejected and leaves every order unchanged  *)
C16_NoPaymentInputWithoutCheck ==
    [][/\ \A c \in Users, o \in OrderIds, i \in Intents, g \in GatewayStatuses :
            (/\ last'.op = "confirmPayment"
             /\ o \in DOMAIN orders
             /\ orders[o].user # c
             /\ ConfirmPayment(c, o, i, g)) =>
                /\ last'.result = "Forbidden"
                /\ orders' = orders
       /\ \A c \in Users, o \in OrderIds :
            (/\ last'.op = "createPaymentIntent"
             /\ o \in DOMAIN orders
             /\ orders[o].user # c
             /\ CreatePaymentIntent(c, o)) =>
                /\ last'.result = "Forbidden"
                /\ orders' = orders
       /\ \A t \in EventTypes, i \in Intents :
            (last'.op = "stripeWebhook" /\ StripeWebhook(FALSE, t, i)) =>
                /\ last'.result = "BadSignature"
                /\ orders' = orders]_vars

(* C16 witness: a webhook with a bad signature was rejected while an       *)
(* unpaid order existed that its event would have marked paid              *)
C16_Witness ==
    /\ last.op = "stripeWebhook"
    /\ last.result = "BadSignature"
    /\ \E i \in Intents :
          /\ IntentOrder(i) \in DOMAIN orders
          /\ ~orders[IntentOrder(i)].isPaid
          /\ orders[IntentOrder(i)].status = "pending"

(* C17: every stored cart has totalAmount = the sum of its lines'          *)
(* totalPrice, totalItems = the sum of its lines' quantity, and each       *)
(* line's totalPrice = quantity x price                                    *)
RECURSIVE C17_Sum(_, _)
C17_Sum(items, field) ==
    IF items = <<>> THEN 0
    ELSE Head(items)[field] + C17_Sum(Tail(items), field)

C17_CartTotals ==
    \A u \in Users :
        carts[u].exists =>
            /\ carts[u].totalAmount = C17_Sum(carts[u].items, "totalPrice")
            /\ carts[u].totalItems = C17_Sum(carts[u].items, "quantity")
            /\ \A i \in DOMAIN carts[u].items :
                  carts[u].items[i].totalPrice =
                     carts[u].items[i].quantity * carts[u].items[i].price

(* C17 witness: updateCartItem has just set the first line of a two-line  *)
(* cart to quantity 2                                                      *)
C17_Witness ==
    /\ last.op = "updateCartItem"
    /\ last.result = "ok"
    /\ \E u \in Users :
          /\ Len(carts[u].items) = 2
          /\ carts[u].items[1].quantity = 2
          /\ carts[u].totalItems = 3
          /\ carts[u].totalAmount > 0

(* C18: addToCart of an existing, active product fails with an             *)
(* insufficient-stock error and leaves the cart unchanged when the product *)
(* tracks quantity and its stock is less than the quantity already in the  *)
(* cart for that product plus the requested quantity; otherwise it         *)
(* succeeds, the cart then holds existing + requested of the product, and  *)
(* the product's line carries the product's current price                  *)
C18_Post(u, p, q) ==
    IF products[p].track
       /\ products[p].quantity < QuantityOf(carts[u].items, p) + q
    THEN /\ last'.result = "InsufficientStock"
         /\ carts' = carts
    ELSE /\ last'.result = "ok"
         /\ QuantityOf(carts'[u].items, p) = QuantityOf(carts[u].items, p) + q
         /\ carts'[u].items[FindIndex(carts'[u].items, p)].price = products[p].price

C18_AddChecksCartQuantity ==
    [][\A u \in Users, p \in Products, q \in AddQtys :
         (/\ last'.op = "addToCart"
          /\ products[p].exists
          /\ products[p].isActive
          /\ AddToCart(u, p, q)) => C18_Post(u, p, q)]_vars

(* C19, as stated: updateCartItem fails with NotFound and leaves the cart  *)
(* unchanged when the cart has no line for the product; when the line      *)
(* exists it fails with an insufficient-stock error if the product tracks  *)
(* quantity and its stock is below the new quantity, and otherwise sets    *)
(* the line's quantity to the requested value                              *)
C19_HasLine(u, p) == carts[u].exists /\ FindIndex(carts[u].items, p) > 0

C19_LineSet(u, p, q) ==
    /\ last'.result = "ok"
    /\ Len(carts'[u].items) = Len(carts[u].items)
    /\ carts'[u].items[FindIndex(carts[u].items, p)].product = p
    /\ carts'[u].items[FindIndex(carts[u].items, p)].quantity = q

C19_AsStated ==
    [][\A u \in Users, p \in Products, q \in UpdateQtys :
         (last'.op = "updateCartItem" /\ UpdateCartItem(u, p, q)) =>
            IF ~C19_HasLine(u, p)
            THEN last'.result = "NotFound" /\ carts' = carts
            ELSE IF products[p].track /\ products[p].quantity < q
                 THEN last'.result = "InsufficientStock"
                 ELSE C19_LineSet(u, p, q)]_vars

(* C19, amended: updateCartItem fails with NotFound and leaves the cart    *)
(* unchanged when the cart has no line for the product, and also when the  *)
(* line exists but the product is missing or inactive; for an existing,    *)
(* active product it fails with an insufficient-stock error, the cart      *)
(* unchanged, if the product tracks quantity and its stock is below the    *)
(* new quantity, and otherwise sets the line's quantity to the requested   *)
(* value                                                                   *)
C19_UpdateCartItem ==
    [][\A u \in Users, p \in Products, q \in UpdateQtys :
         (last'.op = "updateCartItem" /\ UpdateCartItem(u, p, q)) =>
            IF ~C19_HasLine(u, p) \/ ~products[p].exists \/ ~products[p].isActive
            THEN last'.result = "NotFound" /\ carts' = carts
            ELSE IF products[p].track /\ products[p].quantity < q
                 THEN last'.result = "InsufficientStock" /\ carts' = carts
                 ELSE C19_LineSet(u, p, q)]_vars

(* C19 witness: every cart has a line for every product, one product is    *)
(* inactive, and an updateCartItem has just failed with NotFound           *)
C19_Witness ==
    /\ last.op = "updateCartItem"
    /\ last.result = "NotFound"
    /\ \A u \in Users, p \in Products : C19_HasLine(u, p)
    /\ \E p \in Products : products[p].exists /\ ~products[p].isActive

(* C20: removeFromCart succeeds in every state of the account's cart, also *)
(* when no cart has been created yet; it leaves the lines unchanged when   *)
(* the product has no line, leaves no line of the product, and a second    *)
(* removeFromCart gives the same cart as the first                         *)
C20_RemoveIdempotent ==
    [][\A u \in Users, p \in Products :
         (last'.op = "removeFromCart" /\ RemoveFromCart(u, p)) =>
            /\ last'.result = "ok"
            /\ QuantityOf(carts[u].items, p) = 0 => carts'[u].items = carts[u].items
            /\ QuantityOf(carts'[u].items, p) = 0
            /\ RemoveFromCartRun(Db', u, p).db.carts[u] = carts'[u]]_vars

(* C21: syncCart succeeds and stores, in the client's order, exactly the   *)
(* client's lines whose product exists, is active and, when it tracks      *)
(* quantity, has stock >= the line's quantity; nothing else stays in the   *)
(* cart, and there is one error string for each line that was dropped      *)
C21_Kept(line) ==
    /\ products[line.product].exists
    /\ products[line.product].isActive
    /\ products[line.product].track => products[line.product].quantity >= line.quantity

C21_SyncReplacesCart ==
    [][\A u \in Users, lines \in ClientLines :
         (last'.op = "syncCart" /\ SyncCart(u, lines)) =>
            /\ last'.result = "ok"
            /\ carts'[u].exists
            /\ [i \in 1..Len(carts'[u].items) |->
                   Line(carts'[u].items[i].product, carts'[u].items[i].quantity)]
                  = SelectSeq(lines, C21_Kept)
            /\ Len(SyncErrors(Db, lines)) =
                  Len(lines) - Len(SelectSeq(lines, C21_Kept))]_vars

(* C21 witness: a syncCart has just run, one product is inactive or short  *)
(* of stock for the two-line request, and every existing cart holds the    *)
(* single line p1 x 2 that survives from that request                      *)
C21_Witness ==
    /\ last.op = "syncCart"
    /\ \E u \in Users : carts[u].exists
    /\ \A u \in Users :
          carts[u].exists =>
             /\ Len(carts[u].items) = 1
             /\ carts[u].items[1].product = "p1"
             /\ carts[u].items[1].quantity = 2
    /\ ~C21_Kept(Line("p2", 1))

(* C22: getCart succeeds, the account has a cart afterwards (empty when it *)
(* had none), and both the stored cart and the cart in the response hold   *)
(* exactly the former lines whose product exists and is active             *)
C22_Active(item) ==
    products[item.product].exists /\ products[item.product].isActive

C22_GetCartPrunes ==
    [][\A u \in Users :
         (last'.op = "getCart" /\ GetCart(u)) =>
            /\ last'.result = "ok"
            /\ carts'[u].exists
            /\ carts'[u].items = SelectSeq(carts[u].items, C22_Active)
            /\ GetCartRun(Db, u).data = carts'[u].items
            /\ \A v \in Users \ {u} : carts'[v] = carts[v]]_vars

(* C22 witness: a getCart has just run while a product is inactive or      *)
(* deleted; one cart still holds a line of that product and another cart   *)
(* holds only lines of available products                                  *)
C22_Witness ==
    /\ last.op = "getCart"
    /\ \E u, v \in Users :
          /\ carts[u].exists
          /\ carts[u].items # <<>>
          /\ \A i \in DOMAIN carts[u].items : C22_Active(carts[u].items[i])
          /\ carts[v].exists
          /\ \E i \in DOMAIN carts[v].items : ~C22_Active(carts[v].items[i])

----------------------------------------------------------------------------
(* C23: the stock quantity of a product is changed only by an order        *)
(* placement, which lowers it, and by a cancellation, which raises it; no  *)
(* other request (cart operations, status updates, payment confirmation,   *)
(* webhooks, admin product update, status toggle) changes it.              *)
C23_QuantityOnlyByOrders ==
    [][\A p \in Products :
          products'[p].quantity # products[p].quantity =>
              \/ last'.op = "createOrder" /\ products'[p].quantity < products[p].quantity
              \/ last'.op = "cancelOrder" /\ products'[p].quantity > products[p].quantity]_vars

----------------------------------------------------------------------------
(* C24: a product is never deleted while an order in status pending,       *)
(* confirmed, processing or shipped has a line referencing it: a           *)
(* deleteProduct request for such a product fails and leaves the product   *)
(* in place.                                                               *)
C24_Referenced(p) ==
    \E o \in DOMAIN orders :
        /\ orders[o].status \in {"pending", "confirmed", "processing", "shipped"}
        /\ \E i \in DOMAIN orders[o].items : orders[o].items[i].product = p

C24_NoDeleteWhileReferenced ==
    [][\A p \in Products :
          (last'.op = "deleteProduct" /\ products[p].exists /\ C24_Referenced(p)
             /\ DeleteProduct(p))
          => (products'[p].exists /\ last'.result # "ok")]_vars

----------------------------------------------------------------------------
(* C25: whenever an account becomes deactivated, by its own                *)
(* deleteUserAccount or by the admin's deactivateUser, its cart no longer  *)
(* exists afterwards, and the account had no order in status pending,      *)
(* confirmed, processing or shipped.                                       *)
C25_DeactivationDropsCart ==
    [][\A u \in Users :
          (users[u].isActive /\ ~users'[u].isActive)
          => (~carts'[u].exists /\ OpenOrdersOf(Db, u) = {})]_vars

----------------------------------------------------------------------------
(* C26: when createOrder fails after the order has been persisted (a stock *)
(* write fails for some line after earlier lines were decremented),        *)
(* nothing is rolled back: the order stays persisted with status pending,  *)
(* the decrements of the lines before the failing one stay applied, the    *)
(* cart is not cleared, and the request reports an error.                  *)
C26_FailedAfterPersist ==
    /\ last'.op = "createOrder"
    /\ last'.result # "Created"
    /\ Len(orders') = Len(orders) + 1

----------------------------------------------------------------------------
(* C27: updateOrderStatus sets trackingNumber and estimatedDelivery        *)
(* together with a transition to any of the seven status values: a field   *)
(* present in the body is stored and an absent one keeps its value,        *)
(* whatever status is requested, and the stored status is the requested    *)
(* one whatever tracking data comes with it.                               *)
C27_TrackingIndependentOfStatus ==
    [][\A o \in DOMAIN orders, body \in StatusBodies :
          (last'.op = "updateOrderStatus" /\ UpdateOrderStatusTracked(o, body))
          => /\ last'.result = "ok"
             /\ orders'[o].status = body.status
             /\ orders'[o].trackingNumber =
                   IF body.trackingNumber # "" THEN body.trackingNumber
                   ELSE orders[o].trackingNumber
             /\ orders'[o].estimatedDelivery =
                   IF body.estimatedDelivery # 0 THEN body.estimatedDelivery
                   ELSE orders[o].estimatedDelivery]_vars

(* tracking data stored by a request that moved the order to refunded *)
C27_Witness ==
    /\ last.op = "updateOrderStatus"
    /\ last.n = 1
    /\ orders[1].status = "refunded"
    /\ orders[1].trackingNumber = "1Z999"
    /\ orders[1].estimatedDelivery = 9

----------------------------------------------------------------------------
(* C28: stock conservation.  With no admin edit of product records, for    *)
(* every stock-tracked product and after any sequence of placements,       *)
(* cancellations, status updates and payment events, the current stock     *)
(* plus the product's quantities over all orders whose status is not       *)
(* cancelled equals the product's initial stock.                           *)
RECURSIVE C28_Held(_, _)
C28_Held(n, p) ==
    IF n = 0 THEN 0
    ELSE (IF orders[n].status # "cancelled" THEN QuantityOf(orders[n].items, p) ELSE 0)
         + C28_Held(n - 1, p)

C28_StockConserved ==
    \A p \in Products :
        products[p].track =>
            products[p].quantity + C28_Held(Len(orders), p) = InitStock[p]

----------------------------------------------------------------------------
(* C29: a cart's contents are turned into at most one order.  When one     *)
(* account has two overlapping createOrder requests that loaded the same   *)
(* non-empty cart, at most one of them persists an order and each tracked  *)
(* product's stock goes down by at most the cart's quantity of it.         *)
C29_Case ==
    /\ \A r \in Slots :
          /\ req[r].op = "createOrder"
          /\ req[r].pc = "done"
          /\ req[r].overlap
    /\ req[1].caller = req[2].caller
    /\ req[1].cartItems = req[2].cartItems
    /\ req[1].cartItems # <<>>

C29_CartOrderedOnce ==
    C29_Case =>
        /\ Cardinality({r \in Slots : req[r].order # 0}) <= 1
        /\ \A p \in Products :
              products[p].track =>
                  products[p].quantity >= InitStock[p] - QuantityOf(req[1].cartItems, p)

----------------------------------------------------------------------------
(* C30: a payment success, through confirmPayment or the                   *)
(* payment_intent.succeeded webhook, never moves an order's status back    *)
(* to confirmed from processing, shipped, delivered, cancelled or          *)
(* refunded; in particular a cancelled order whose stock was restored      *)
(* stays cancelled.                                                        *)
C30_PaymentNeverMovesBackwards ==
    [][\A o \in DOMAIN orders :
          (/\ last'.op \in {"confirmPayment", "payment_intent.succeeded"}
           /\ orders[o].status \in {"processing", "shipped", "delivered",
                                    "cancelled", "refunded"})
          => orders'[o].status # "confirmed"]_vars

====
